---- MODULE Spec2Model ----
(***************************************************************************)
(* Model of the Svelte bindings of the Pillar SDK: the provider component  *)
(* (PillarProvider.svelte), the panel mount point (PillarPanel.svelte) and *)
(* the usePillar / useHelpPanel accessors.  The SDK instance is the         *)
(* environment: it resolves or rejects Pillar.init, emits events to the    *)
(* listeners registered with on(), invokes registered card renderers and   *)
(* calls (or never calls) the cleanups they return.                        *)
(*                                                                         *)
(* Every step records in `trace` the ordered effects it had outside the    *)
(* stores (calls on Pillar / the instance, cleanups run, components        *)
(* unmounted, console output, prop callbacks invoked) and in `last` the    *)
(* operation that ran, its arguments and what it returned.                 *)
(***************************************************************************)
EXTENDS Naturals, Sequences, FiniteSets

\* ------------------------------------------------------------------ bounds
MaxProviders == 2   \* provider activations (mount, unmount, mount again)
MaxComps == 2       \* card components mounted over a run
MaxUserSubs == 1    \* listeners a descendant registers through on()/onTask()

\* ------------------------------------------------------------------ values
NULL == "null"
UNDEFINED == "undefined"             \* a prop that was not supplied
NOOP == [kind |-> "noop"]            \* the () => {} a control returns
NORETURN == [kind |-> "undefined"]   \* a function that returns nothing
PILLAR == "pillar"                   \* the identity of the SDK singleton
Providers == 1..MaxProviders
Containers == {"c1", "c2"}           \* container elements the SDK hands to renderers
PANEL_DIV == "containerRef"          \* the div a PillarPanel binds
Data == {"d1", "d2"}
TaskNames == {"t1"}
TaskHandlers == {"h1", "h2"}         \* handler functions a descendant passes to onTask
UserCallbacks == {"u1"}              \* callbacks a descendant passes to on()
UserEvents == {"ready", "task:execute"}
Tasks == [name : TaskNames, data : Data]
NOPAYLOAD == [name |-> "none", data |-> "none"]   \* the payload of the other events
CardCallbackSets ==
    {[onConfirm |-> "confirm1", onCancel |-> "cancel1", onStateChange |-> "change1"]}
PillarStates == {"uninitialized", "ready", "error"}
EventNames == {"panel:open", "panel:close", "ready", "error", "task:execute"}
ProductKeys == {UNDEFINED, "", "pk"}  \* productKey?: string
HelpCenters == {UNDEFINED, "", "hc"}  \* helpCenter?: string
\* the props an application gives the provider (the same on every remount)
PropChoices ==
    {[onTask |-> t, cards |-> c, productKey |-> k, helpCenter |-> h] :
        t \in BOOLEAN, c \in {<<>>, <<"cardA">>, <<"cardA", "cardB">>},
        k \in ProductKeys, h \in HelpCenters}
\* JavaScript truthiness of an optional string
Truthy(s) == s \notin {UNDEFINED, ""}

VARIABLES
    props,             \* the provider's props: onTask supplied?, the cards mapping's keys
    singleton,         \* TRUE when Pillar.getInstance() returns the instance
    sdkState,          \* instance.state
    sdkPanelOpen,      \* the instance's own panel open/closed state
    listeners,         \* listeners registered on the instance with on()
    taskHandlers,      \* handlers registered on the instance with onTask()
    cardRenderers,     \* renderers registered on the instance with registerCard()
    cardCleanups,      \* cleanups returned by renderers that the instance still holds
    pc,                \* per provider: position of its script / onMount
    destroyed,         \* per provider: onDestroy has run
    pillarStore,       \* per provider: writable<Pillar | null>
    stateStore,        \* per provider: writable<PillarState>
    isPanelOpenStore,  \* per provider: writable<boolean>
    cleanupFunctions,  \* per provider: the collected cleanup functions, in order
    cardInstances,     \* per provider: Map container -> component, in insertion order
    comps,             \* every card component mounted so far: its provider, its target,
                       \* whether the provider was already torn down when it was mounted
                       \* (a sequence: the index is the component handle)
    unmounts,          \* per component: how many times unmount() was called on it
    panelPc,           \* per provider: its PillarPanel: "none", "active", "destroyed"
    hasMounted,        \* per provider's panel: the hasMounted guard flag
    panelUnsub,        \* per provider's panel: what its onMount returned
    mountPanelCalls,   \* per provider's panel: calls of mountPanelTo on its container
    readySeen,         \* per provider's panel: a ready event was emitted since it activated
    orphanPc,          \* the PillarPanel rendered outside every provider:
                       \* "none", "created", "mounted", "destroyed"
    trace,             \* ordered outside effects of the last step
    writes,            \* ordered writes to the provider stores made by the last step
    last               \* the last operation: name, provider, arguments, result

sdkVars == <<singleton, sdkState, sdkPanelOpen, listeners, taskHandlers,
             cardRenderers, cardCleanups>>
storeVars == <<pillarStore, stateStore, isPanelOpenStore>>
provVars == <<pc, destroyed, cleanupFunctions, cardInstances>>
compVars == <<comps, unmounts>>
panelVars == <<panelPc, hasMounted, panelUnsub, mountPanelCalls, readySeen, orphanPc>>
vars == <<props, sdkVars, storeVars, provVars, compVars, panelVars, trace, writes, last>>

\* ------------------------------------------------------------- trace items
Call(m, args) == [k |-> "call", m |-> m, args |-> args]
Cleanup(f) == [k |-> "cleanup", f |-> f]
Unmount(c) == [k |-> "unmount", c |-> c]
ConsoleError(msg) == [k |-> "console.error", msg |-> msg]
ConsoleWarn(msg) == [k |-> "console.warn", msg |-> msg]
\* store.set(value) on one of provider p's stores
StoreSet(p, store, value) == [p |-> p, store |-> store, value |-> value]
OnTaskProp(p, task) == [k |-> "onTask", p |-> p, task |-> task]
Op(name, p, args, result) == [op |-> name, p |-> p, args |-> args, result |-> result]

CallsOf(t, m) == SelectSeq(t, LAMBDA e : e.k = "call" /\ e.m = m)

\* --------------------------------------------------- listeners and handles
Listener(ev, p, h) == [ev |-> ev, owner |-> p, h |-> h]
\* what instance.on(...) returns: the function that removes that listener
Off(l) == [kind |-> "off", l |-> l]
\* what instance.registerCard(...) returns
UnregisterCard(p, cardType) == [kind |-> "unregisterCard", owner |-> p, cardType |-> cardType]

RECURSIVE SetOfSeq(_)
SetOfSeq(s) == IF s = <<>> THEN {} ELSE {Head(s)} \cup SetOfSeq(Tail(s))

\* ----------------------------------------------------- the Map of line 53
MapHas(m, key) == \E i \in 1..Len(m) : m[i][1] = key
\* 0 stands for undefined: component handles are 1, 2, ...
MapGet(m, key) ==
    IF MapHas(m, key) THEN m[CHOOSE i \in 1..Len(m) : m[i][1] = key][2] ELSE 0
MapSet(m, key, v) ==
    IF MapHas(m, key)
    THEN [i \in 1..Len(m) |-> IF m[i][1] = key THEN <<key, v>> ELSE m[i]]
    ELSE Append(m, <<key, v>>)
MapDelete(m, key) == SelectSeq(m, LAMBDA e : e[1] # key)
MapValues(m) == [i \in 1..Len(m) |-> m[i][2]]

\* ---------------------------------------------------------------- stores
\* faulty variant: ready is taken to be every state but the initial one
isReadyStore_NotUninitialized(p) == stateStore[p] # "uninitialized"

\* derived(stateStore, $state => $state === 'ready')
isReadyStore(p) == stateStore[p] = "ready"

Init ==
    /\ props \in PropChoices
    /\ singleton = FALSE
    /\ sdkState = "uninitialized"
    /\ sdkPanelOpen = FALSE
    /\ listeners = {}
    /\ taskHandlers = {}
    /\ cardRenderers = {}
    /\ cardCleanups = {}
    /\ pc = [p \in Providers |-> "none"]
    /\ destroyed = [p \in Providers |-> FALSE]
    /\ pillarStore = [p \in Providers |-> NULL]
    /\ stateStore = [p \in Providers |-> "uninitialized"]
    /\ isPanelOpenStore = [p \in Providers |-> FALSE]
    /\ cleanupFunctions = [p \in Providers |-> <<>>]
    /\ cardInstances = [p \in Providers |-> <<>>]
    /\ comps = <<>>
    /\ unmounts = <<>>
    /\ panelPc = [p \in Providers |-> "none"]
    /\ hasMounted = [p \in Providers |-> FALSE]
    /\ panelUnsub = [p \in Providers |-> NORETURN]
    /\ mountPanelCalls = [p \in Providers |-> 0]
    /\ readySeen = [p \in Providers |-> FALSE]
    /\ orphanPc = "none"
    /\ trace = <<>>
    /\ writes = <<>>
    /\ last = Op("init", 0, <<>>, NULL)

\* ------------------------------------------------- PillarProvider: script
\* The component script runs: the stores are created and the context is set.
\* A provider is mounted again only after the previous one was unmounted.
\* const resolvedKey = productKey ?? helpCenter
resolvedKey == IF props.productKey # UNDEFINED THEN props.productKey ELSE props.helpCenter

\* if (helpCenter && !productKey) console.warn(...)
DeprecationWarning ==
    IF Truthy(props.helpCenter) /\ ~Truthy(props.productKey)
    THEN <<ConsoleWarn("helpCenter is deprecated")>>
    ELSE <<>>

ProviderCreate(p) ==
    /\ pc[p] = "none"
    /\ \A q \in Providers : q < p => destroyed[q]
    /\ pc' = [pc EXCEPT ![p] = "created"]
    /\ trace' = DeprecationWarning
    /\ writes' = <<>>
    /\ last' = Op("PillarProvider", p, <<>>, NULL)
    /\ UNCHANGED <<props, sdkVars, storeVars, destroyed, cleanupFunctions,
                   cardInstances, compVars, panelVars>>

\* ------------------------------------------------ PillarProvider: onMount
\* the listeners the reuse path registers, in order
ReuseListeners(p) ==
    << Listener("panel:open", p, "onPanelOpen"),
       Listener("panel:close", p, "onPanelClose") >>

\* the listeners the fresh-init path registers, in order
FreshListeners(p) ==
    << Listener("panel:open", p, "onPanelOpen"),
       Listener("panel:close", p, "onPanelClose"),
       Listener("ready", p, "onReady"),
       Listener("error", p, "onError") >>
    \o (IF props.onTask THEN << Listener("task:execute", p, "onTaskExecute") >> ELSE <<>>)

\* faulty variant: the reuse path leaves the state store at its initial value
ReuseState_Stale == "uninitialized"

\* stateStore.set(existingInstance.state)
ReuseState == sdkState

\* stateStore.set(instance.state), with st the state of the instance init returned
InitState(st) == st

\* registerCards(instance): one registerCard per entry of cards, each unsubscribe collected
CardUnsubs(p) ==
    [i \in 1..Len(props.cards) |-> UnregisterCard(p, props.cards[i])]

RegisterCardCalls(p) ==
    [i \in 1..Len(props.cards) |-> Call("registerCard", <<props.cards[i], p>>)]

\* const unsubX = instance.on(ev, handler); cleanupFunctions.push(unsubX)
OnCalls(ls) == [i \in 1..Len(ls) |-> Call("on", <<ls[i].ev, ls[i].h>>)]
OffSeq(ls) == [i \in 1..Len(ls) |-> Off(ls[i])]

\* faulty variant: registerCards keeps no unsubscribe
Collected_ListenersOnly(p, ls) == OffSeq(ls)

\* what onMount collects for teardown after registering ls and the cards
Collected(p, ls) == OffSeq(ls) \o CardUnsubs(p)

\* faulty variant: the state store is written before the instance store
StoreWrites_StateFirst(p, st) ==
    << StoreSet(p, "state", st), StoreSet(p, "pillar", PILLAR) >>

\* pillarStore.set(instance); stateStore.set(instance.state)
StoreWrites(p, st) ==
    << StoreSet(p, "pillar", PILLAR), StoreSet(p, "state", st) >>

\* faulty variant: the continuation of onMount does nothing once the provider
\* was destroyed
Attach_Cancelled(p, st, ls) ==
    IF destroyed[p]
    THEN /\ writes' = <<>>
         /\ UNCHANGED <<pillarStore, stateStore, listeners, cardRenderers, cleanupFunctions>>
    ELSE /\ pillarStore' = [pillarStore EXCEPT ![p] = PILLAR]
         /\ stateStore' = [stateStore EXCEPT ![p] = st]
         /\ writes' = StoreWrites(p, st)
         /\ listeners' = listeners \cup SetOfSeq(ls)
         /\ cardRenderers' = cardRenderers \cup
               {[owner |-> p, cardType |-> props.cards[i]] : i \in 1..Len(props.cards)}
         /\ cleanupFunctions' = [cleanupFunctions EXCEPT ![p] = @ \o Collected(p, ls)]

\* the stores written, the listeners and renderers registered on the instance
Attach(p, st, ls) ==
    /\ pillarStore' = [pillarStore EXCEPT ![p] = PILLAR]
    /\ stateStore' = [stateStore EXCEPT ![p] = st]
    /\ writes' = StoreWrites(p, st)
    /\ listeners' = listeners \cup SetOfSeq(ls)
    /\ cardRenderers' = cardRenderers \cup
          {[owner |-> p, cardType |-> props.cards[i]] : i \in 1..Len(props.cards)}
    /\ cleanupFunctions' = [cleanupFunctions EXCEPT ![p] = @ \o Collected(p, ls)]

\* onMount when Pillar.getInstance() returns the singleton: synchronous to its return
OnMountReuse(p) ==
    /\ pc[p] = "created"
    /\ singleton
    /\ Attach(p, ReuseState, ReuseListeners(p))
    /\ pc' = [pc EXCEPT ![p] = "done"]
    /\ trace' = <<Call("getInstance", <<>>)>> \o OnCalls(ReuseListeners(p))
                   \o RegisterCardCalls(p)
    /\ last' = Op("onMount", p, <<>>, "reused")
    /\ UNCHANGED <<props, singleton, sdkState, sdkPanelOpen, taskHandlers, cardCleanups,
                   isPanelOpenStore, destroyed, cardInstances, compVars, panelVars>>

\* onMount when there is no singleton: up to the await of Pillar.init
OnMountInit(p) ==
    /\ pc[p] = "created"
    /\ ~singleton
    /\ pc' = [pc EXCEPT ![p] = "awaitInit"]
    /\ trace' = <<Call("getInstance", <<>>),
                  Call("init", <<[productKey |-> resolvedKey]>>)>>
    /\ writes' = <<>>
    /\ last' = Op("onMount", p, <<>>, "awaiting")
    /\ UNCHANGED <<props, sdkVars, storeVars, destroyed, cleanupFunctions,
                   cardInstances, compVars, panelVars>>

\* Pillar.init resolves with the singleton, whose state is st unless it existed
\* already; onMount continues to its end (also when the provider was unmounted
\* meanwhile: nothing cancels the continuation)
InitResolve(p, st) ==
    /\ pc[p] = "awaitInit"
    /\ singleton => st = sdkState
    /\ singleton' = TRUE
    /\ sdkState' = st
    /\ Attach(p, InitState(st), FreshListeners(p))
    /\ pc' = [pc EXCEPT ![p] = "done"]
    /\ trace' = OnCalls(FreshListeners(p)) \o RegisterCardCalls(p)
    /\ last' = Op("initResolved", p, <<>>, PILLAR)
    /\ UNCHANGED <<props, sdkPanelOpen, taskHandlers, cardCleanups,
                   isPanelOpenStore, destroyed, cardInstances, compVars, panelVars>>

\* faulty variant: the catch block only logs
CaughtState_Unset == "uninitialized"

\* the state store after the catch block
CaughtState == "error"

\* what the catch block reports
CaughtReport == <<ConsoleError("[Pillar Svelte] Failed to initialize:")>>

\* Pillar.init rejects: the catch block of onMount runs, nothing is rethrown
InitReject(p) ==
    /\ pc[p] = "awaitInit"
    /\ pc' = [pc EXCEPT ![p] = "failed"]
    /\ stateStore' = [stateStore EXCEPT ![p] = CaughtState]
    /\ trace' = CaughtReport
    /\ writes' = <<StoreSet(p, "state", CaughtState)>>
    /\ last' = Op("initRejected", p, <<>>, "caught")
    /\ UNCHANGED <<props, sdkVars, pillarStore, isPanelOpenStore, destroyed,
                   cleanupFunctions, cardInstances, compVars, panelVars>>

\* anything else the try block runs may throw as well, and reaches the same catch
\* block: here Pillar.getInstance(), its first statement
GetInstanceThrows(p) ==
    /\ pc[p] = "created"
    /\ pc' = [pc EXCEPT ![p] = "failed"]
    /\ stateStore' = [stateStore EXCEPT ![p] = CaughtState]
    /\ trace' = <<Call("getInstance", <<>>)>> \o CaughtReport
    /\ writes' = <<StoreSet(p, "state", CaughtState)>>
    /\ last' = Op("getInstanceThrew", p, <<>>, "caught")
    /\ UNCHANGED <<props, sdkVars, pillarStore, isPanelOpenStore, destroyed,
                   cleanupFunctions, cardInstances, compVars, panelVars>>

\* {#if children}{@render children()}{/if}: nothing in the template reads a store
ChildrenRendered(p) == pc[p] # "none" /\ ~destroyed[p]

\* ---------------------------------------------- PillarProvider: onDestroy
\* cleanupFunctions.forEach((cleanup) => cleanup())
CleanupsRun(p) == cleanupFunctions[p]

\* cardInstances.forEach((component) => unmount(component))
CardsUnmounted(p) == MapValues(cardInstances[p])

\* faulty variant: onDestroy unmounts the card components before it runs the cleanups
DestroyTrace_CardsFirst(p) ==
    [i \in 1..Len(CardsUnmounted(p)) |-> Unmount(CardsUnmounted(p)[i])]
    \o [i \in 1..Len(CleanupsRun(p)) |-> Cleanup(CleanupsRun(p)[i])]

\* the order of onDestroy's effects
DestroyTrace(p) ==
    [i \in 1..Len(CleanupsRun(p)) |-> Cleanup(CleanupsRun(p)[i])]
    \o [i \in 1..Len(CardsUnmounted(p)) |-> Unmount(CardsUnmounted(p)[i])]

\* cleanupFunctions.length = 0
CleanupsAfterDestroy(p) == <<>>

\* cardInstances.clear()
CardsAfterDestroy(p) == <<>>

\* Pillar.destroy() is not called: getInstance() keeps returning the instance
SingletonAfterDestroy == singleton

CountIn(s, x) == Len(SelectSeq(s, LAMBDA e : e = x))

OnDestroy(p) ==
    /\ pc[p] \in {"awaitInit", "done", "failed"}
    /\ ~destroyed[p]
    /\ panelPc[p] # "active"
    /\ destroyed' = [destroyed EXCEPT ![p] = TRUE]
    /\ listeners' = listeners \
          {f.l : f \in {g \in SetOfSeq(CleanupsRun(p)) : g.kind = "off"}}
    /\ cardRenderers' = cardRenderers \
          {[owner |-> f.owner, cardType |-> f.cardType] :
              f \in {g \in SetOfSeq(CleanupsRun(p)) : g.kind = "unregisterCard"}}
    /\ unmounts' = [c \in DOMAIN unmounts |-> unmounts[c] + CountIn(CardsUnmounted(p), c)]
    /\ cleanupFunctions' = [cleanupFunctions EXCEPT ![p] = CleanupsAfterDestroy(p)]
    /\ cardInstances' = [cardInstances EXCEPT ![p] = CardsAfterDestroy(p)]
    /\ singleton' = SingletonAfterDestroy
    /\ trace' = DestroyTrace(p)
    /\ writes' = <<>>
    /\ last' = Op("onDestroy", p, <<CleanupsRun(p), CardsUnmounted(p)>>, NULL)
    /\ UNCHANGED <<props, sdkState, sdkPanelOpen, taskHandlers, cardCleanups,
                   storeVars, pc, comps, panelVars>>

\* ------------------------------------------------ the instance's events
\* faulty variant: the ready handler without the hasMounted guard
PanelReadyMounts_NoGuard(p) ==
    /\ Listener("ready", p, "panelReady") \in listeners
    /\ pillarStore[p] # NULL

\* the handler the PillarPanel registers for 'ready' mounts the panel when the
\* instance is in the store and the guard flag is clear
PanelReadyMounts(p) ==
    /\ Listener("ready", p, "panelReady") \in listeners
    /\ pillarStore[p] # NULL
    /\ ~hasMounted[p]

\* the provider's four store-updating handlers
StateAfter(p, ev) ==
    IF ev = "ready" /\ Listener("ready", p, "onReady") \in listeners THEN "ready"
    ELSE IF ev = "error" /\ Listener("error", p, "onError") \in listeners THEN "error"
    ELSE stateStore[p]

PanelOpenAfter(p, ev) ==
    IF ev = "panel:open" /\ Listener("panel:open", p, "onPanelOpen") \in listeners THEN TRUE
    ELSE IF ev = "panel:close" /\ Listener("panel:close", p, "onPanelClose") \in listeners
         THEN FALSE
    ELSE isPanelOpenStore[p]

\* instance.on('task:execute', (task) => { onTask(task) })
TaskDelivery(p, ev, task) ==
    IF ev = "task:execute" /\ Listener("task:execute", p, "onTaskExecute") \in listeners
    THEN <<OnTaskProp(p, task)>> ELSE <<>>

PanelDelivery(p, ev) ==
    IF ev = "ready" /\ PanelReadyMounts(p)
    THEN <<Call("mountPanelTo", <<p, PANEL_DIV>>)>> ELSE <<>>

\* the store writes of provider p's handlers for ev
HandlerWrites(p, ev) ==
    IF Listener(ev, p, "onReady") \in listeners THEN <<StoreSet(p, "state", "ready")>>
    ELSE IF Listener(ev, p, "onError") \in listeners THEN <<StoreSet(p, "state", "error")>>
    ELSE IF Listener(ev, p, "onPanelOpen") \in listeners
         THEN <<StoreSet(p, "isPanelOpen", TRUE)>>
    ELSE IF Listener(ev, p, "onPanelClose") \in listeners
         THEN <<StoreSet(p, "isPanelOpen", FALSE)>>
    ELSE <<>>

RECURSIVE EmitWrites(_, _)
EmitWrites(p, ev) ==
    IF p > MaxProviders THEN <<>> ELSE HandlerWrites(p, ev) \o EmitWrites(p + 1, ev)

RECURSIVE EmitTrace(_, _, _)
EmitTrace(p, ev, task) ==
    IF p > MaxProviders THEN <<>>
    ELSE TaskDelivery(p, ev, task) \o PanelDelivery(p, ev) \o EmitTrace(p + 1, ev, task)

\* the instance emits ev: every listener registered for it runs
SdkEmit(ev, task) ==
    /\ singleton
    /\ (ev = "task:execute") <=> (task # NOPAYLOAD)
    /\ sdkState' = (IF ev \in {"ready", "error"} THEN ev ELSE sdkState)
    /\ sdkPanelOpen' = (IF ev = "panel:open" THEN TRUE
                        ELSE IF ev = "panel:close" THEN FALSE ELSE sdkPanelOpen)
    /\ stateStore' = [p \in Providers |-> StateAfter(p, ev)]
    /\ isPanelOpenStore' = [p \in Providers |-> PanelOpenAfter(p, ev)]
    /\ hasMounted' = [p \in Providers |->
                        hasMounted[p] \/ (ev = "ready" /\ PanelReadyMounts(p))]
    /\ mountPanelCalls' = [p \in Providers |->
                        mountPanelCalls[p] + Len(PanelDelivery(p, ev))]
    /\ readySeen' = [p \in Providers |->
                        readySeen[p] \/ (ev = "ready" /\ panelPc[p] = "active")]
    /\ trace' = EmitTrace(1, ev, task)
    /\ writes' = EmitWrites(1, ev)
    /\ last' = Op("emit", 0, <<ev, task>>, NORETURN)
    /\ UNCHANGED <<props, singleton, listeners, taskHandlers, cardRenderers, cardCleanups,
                   pillarStore, provVars, compVars, panelPc, panelUnsub, orphanPc>>

\* ------------------------------------------------------------ card renderers
\* the props the renderer passes to mount()
CardProps(data, callbacks) ==
    [data |-> data,
     onConfirm |-> callbacks.onConfirm,
     onCancel |-> callbacks.onCancel,
     onStateChange |-> callbacks.onStateChange]

\* mount(CardComponent, {target: container, props})
Mounted(r, container, data, callbacks) ==
    [k |-> "mount", c |-> Len(comps) + 1, component |-> r.cardType,
     target |-> container, props |-> CardProps(data, callbacks)]

\* cardInstances.set(container, component)
Tracked(m, container, c) == MapSet(m, container, c)

\* the instance invokes the renderer r with (container, data, callbacks)
SdkRenderCard(r, container, data, callbacks) ==
    /\ r \in cardRenderers
    /\ Len(comps) < MaxComps
    /\ comps' = Append(comps, [owner |-> r.owner, target |-> container,
                               afterTeardown |-> destroyed[r.owner]])
    /\ unmounts' = Append(unmounts, 0)
    /\ cardInstances' = [cardInstances EXCEPT
                           ![r.owner] = Tracked(@, container, Len(comps) + 1)]
    /\ cardCleanups' = cardCleanups \cup
          {[owner |-> r.owner, container |-> container, of |-> Len(comps) + 1]}
    /\ trace' = <<Mounted(r, container, data, callbacks)>>
    /\ writes' = <<>>
    /\ last' = Op("renderCard", r.owner, <<r.cardType, container, data, callbacks>>,
                  [kind |-> "cardCleanup", container |-> container])
    /\ UNCHANGED <<props, singleton, sdkState, sdkPanelOpen, listeners, taskHandlers,
                   cardRenderers, storeVars, pc, destroyed, cleanupFunctions, panelVars>>

\* the component the returned cleanup unmounts: cardInstances.get(container)
CleanupTarget(cl) == MapGet(cardInstances[cl.owner], cl.container)

\* the instance calls a cleanup a renderer returned
SdkCardCleanup(cl) ==
    /\ cl \in cardCleanups
    /\ cardCleanups' = cardCleanups \ {cl}
    /\ IF CleanupTarget(cl) # 0
       THEN /\ unmounts' = [unmounts EXCEPT ![CleanupTarget(cl)] = @ + 1]
            /\ cardInstances' = [cardInstances EXCEPT
                                   ![cl.owner] = MapDelete(@, cl.container)]
            /\ trace' = <<Unmount(CleanupTarget(cl))>>
       ELSE /\ UNCHANGED <<unmounts, cardInstances>>
            /\ trace' = <<>>
    /\ writes' = <<>>
    /\ last' = Op("cardCleanup", cl.owner, <<cl.container, cl.of>>, NORETURN)
    /\ UNCHANGED <<props, singleton, sdkState, sdkPanelOpen, listeners, taskHandlers,
                   cardRenderers, storeVars, pc, destroyed, cleanupFunctions, comps,
                   panelVars>>

\* ------------------------------------------------------ the context's controls
ControlOps ==
    {"open", "close", "toggle", "openArticle", "openCategory", "search", "navigate",
     "setTheme", "setTextSelectionEnabled"}

\* the arguments a descendant calls each control with
ControlArgs(op) ==
    CASE op = "open" -> {<<[view |-> "search"]>>, <<[article |-> "a1"]>>}
      [] op \in {"close", "toggle"} -> {<<>>}
      [] op \in {"openArticle", "openCategory"} -> {<<"slug1">>}
      [] op = "search" -> {<<"q1">>}
      [] op = "navigate" -> {<<"chat", [id |-> "x"]>>}
      [] op = "setTheme" -> {<<[mode |-> "dark"]>>}
      [] op = "setTextSelectionEnabled" -> {<<TRUE>>, <<FALSE>>}

\* faulty variant: search calls a search method instead of open({search})
InstanceCall_SearchMethod(op, args) ==
    CASE op = "openArticle" -> Call("open", <<[article |-> args[1]]>>)
      [] op = "openCategory" -> Call("navigate", <<"category", [slug |-> args[1]]>>)
      [] OTHER -> Call(op, args)

\* the call each control makes on the instance: get(pillarStore)?.method(...)
InstanceCall(op, args) ==
    CASE op = "openArticle" -> Call("open", <<[article |-> args[1]]>>)
      [] op = "openCategory" -> Call("navigate", <<"category", [slug |-> args[1]]>>)
      [] op = "search" -> Call("open", <<[search |-> args[1]]>>)
      [] OTHER -> Call(op, args)

\* faulty variant: the call is made without the optional chaining
ControlCalls_NoNullCheck(p, op, args) == <<InstanceCall(op, args)>>

\* optional chaining: no call at all while the store holds null
ControlCalls(p, op, args) ==
    IF pillarStore[p] = NULL THEN <<>> ELSE <<InstanceCall(op, args)>>

\* a descendant of provider p calls one of the nine controls that return nothing
Control(p, op, args) ==
    /\ pc[p] # "none"
    /\ ~destroyed[p]
    /\ trace' = ControlCalls(p, op, args)
    /\ writes' = <<>>
    /\ last' = Op(op, p, args, NORETURN)
    /\ UNCHANGED <<props, sdkVars, storeVars, provVars, compVars, panelVars>>

\* on(event, callback): get(pillarStore)?.on(event, callback) ?? (() => {})
OnResult(p, ev, h) ==
    IF pillarStore[p] = NULL THEN NOOP ELSE Off(Listener(ev, p, h))

OnRegisters(p, ev, h) ==
    IF pillarStore[p] = NULL THEN {} ELSE {Listener(ev, p, h)}

OnTrace(p, ev, h) ==
    IF pillarStore[p] = NULL THEN <<>> ELSE <<Call("on", <<ev, h>>)>>

UserListeners == {l \in listeners : l.h \in UserCallbacks}

\* a descendant of provider p calls on(ev, h)
ControlOn(p, ev, h) ==
    /\ pc[p] # "none"
    /\ ~destroyed[p]
    /\ Cardinality(UserListeners \cup OnRegisters(p, ev, h)) <= MaxUserSubs
    /\ listeners' = listeners \cup OnRegisters(p, ev, h)
    /\ trace' = OnTrace(p, ev, h)
    /\ writes' = <<>>
    /\ last' = Op("on", p, <<ev, h>>, OnResult(p, ev, h))
    /\ UNCHANGED <<props, singleton, sdkState, sdkPanelOpen, taskHandlers, cardRenderers,
                   cardCleanups, storeVars, provVars, compVars, panelVars>>

\* ------------------------------------------------------------------ usePillar
\* the wrapper's result: pillar.onTask(taskName, handler), or a no-op without instance
OnTaskResult(p, name, handler) ==
    IF pillarStore[p] = NULL THEN NOOP
    ELSE [kind |-> "offTask", name |-> name, handler |-> handler]

OnTaskRegisters(p, name, handler) ==
    IF pillarStore[p] = NULL THEN {} ELSE {[name |-> name, handler |-> handler]}

\* faulty variant: the wrapper passes its two arguments in the wrong order
OnTaskTrace_Swapped(p, name, handler) ==
    IF pillarStore[p] = NULL THEN <<>> ELSE <<Call("onTask", <<handler, name>>)>>

OnTaskTrace(p, name, handler) ==
    IF pillarStore[p] = NULL THEN <<>> ELSE <<Call("onTask", <<name, handler>>)>>

\* a descendant of provider p calls usePillar().onTask(name, handler)
UsePillarOnTask(p, name, handler) ==
    /\ pc[p] # "none"
    /\ ~destroyed[p]
    /\ Cardinality(taskHandlers \cup OnTaskRegisters(p, name, handler)) <= MaxUserSubs
    /\ taskHandlers' = taskHandlers \cup OnTaskRegisters(p, name, handler)
    /\ trace' = OnTaskTrace(p, name, handler)
    /\ writes' = <<>>
    /\ last' = Op("usePillar.onTask", p, <<name, handler>>, OnTaskResult(p, name, handler))
    /\ UNCHANGED <<props, singleton, sdkState, sdkPanelOpen, listeners, cardRenderers,
                   cardCleanups, storeVars, provVars, compVars, panelVars>>

\* ---------------------------------------------------------------- PillarPanel
\* onMount takes the deferred branch
PanelDefers(p) == ~isReadyStore(p) \/ pillarStore[p] = NULL \/ hasMounted[p]

\* ... and in it subscribes to 'ready' through the context's on()
PanelSubscribes(p) == PanelDefers(p) /\ ~isReadyStore(p)

\* faulty variant: onMount subscribes and returns nothing
PanelOnMountResult_Nothing(p) == NORETURN

\* what onMount returns (Svelte calls it when the component is destroyed)
PanelOnMountResult(p) ==
    IF PanelSubscribes(p) THEN OnResult(p, "ready", "panelReady") ELSE NORETURN

\* the PillarPanel inside provider p is mounted: its onMount runs
PanelOnMount(p) ==
    /\ pc[p] # "none"
    /\ ~destroyed[p]
    /\ panelPc[p] = "none"
    /\ panelPc' = [panelPc EXCEPT ![p] = "active"]
    /\ panelUnsub' = [panelUnsub EXCEPT ![p] = PanelOnMountResult(p)]
    /\ IF PanelDefers(p)
       THEN /\ listeners' = listeners \cup
                  (IF PanelSubscribes(p) THEN OnRegisters(p, "ready", "panelReady") ELSE {})
            /\ trace' = (IF PanelSubscribes(p) THEN OnTrace(p, "ready", "panelReady")
                         ELSE <<>>)
            /\ UNCHANGED <<hasMounted, mountPanelCalls>>
       ELSE /\ hasMounted' = [hasMounted EXCEPT ![p] = TRUE]
            /\ mountPanelCalls' = [mountPanelCalls EXCEPT ![p] = @ + 1]
            /\ trace' = <<Call("mountPanelTo", <<p, PANEL_DIV>>)>>
            /\ UNCHANGED listeners
    /\ writes' = <<>>
    /\ last' = Op("PillarPanel.onMount", p, <<isReadyStore(p), pillarStore[p]>>,
                  PanelOnMountResult(p))
    /\ UNCHANGED <<props, singleton, sdkState, sdkPanelOpen, taskHandlers, cardRenderers,
                   cardCleanups, storeVars, provVars, compVars, readySeen, orphanPc>>

\* the PillarPanel is destroyed: Svelte calls what onMount returned
PanelDestroy(p) ==
    /\ panelPc[p] = "active"
    /\ panelPc' = [panelPc EXCEPT ![p] = "destroyed"]
    /\ listeners' = listeners \
          (IF panelUnsub[p].kind = "off" THEN {panelUnsub[p].l} ELSE {})
    /\ trace' = (IF panelUnsub[p] = NORETURN THEN <<>> ELSE <<Cleanup(panelUnsub[p])>>)
    /\ writes' = <<>>
    /\ last' = Op("PillarPanel.destroy", p, <<>>, NORETURN)
    /\ UNCHANGED <<props, singleton, sdkState, sdkPanelOpen, taskHandlers, cardRenderers,
                   cardCleanups, storeVars, provVars, compVars, hasMounted, panelUnsub,
                   mountPanelCalls, readySeen, orphanPc>>

\* ------------------------------------------- accessors and their context
\* getContext(PILLAR_CONTEXT_KEY) in a component under provider p; p = 0 is a
\* component with no PillarProvider above it, for which getContext is undefined
NoProvider == 0
HasContext(p) == p # NoProvider
Contexts == {NoProvider} \cup {p \in Providers : pc[p] # "none" /\ ~destroyed[p]}
Throw(msg) == [kind |-> "throw", msg |-> msg]
ContextValue(p) == [kind |-> "context", p |-> p]

\* usePillar(): lines 87-91, then the context with the typed onTask
UsePillarResult(p) ==
    IF ~HasContext(p) THEN Throw("usePillar must be used within a PillarProvider")
    ELSE ContextValue(p)

UsePillar(p) ==
    /\ trace' = <<>>
    /\ writes' = <<>>
    /\ last' = Op("usePillar", p, <<>>, UsePillarResult(p))
    /\ UNCHANGED <<props, sdkVars, storeVars, provVars, compVars, panelVars>>

\* useHelpPanel(): lines 59-63, then the panel controls
UseHelpPanelResult(p) ==
    IF ~HasContext(p) THEN Throw("useHelpPanel must be used within a PillarProvider")
    ELSE ContextValue(p)

UseHelpPanel(p) ==
    /\ trace' = <<>>
    /\ writes' = <<>>
    /\ last' = Op("useHelpPanel", p, <<>>, UseHelpPanelResult(p))
    /\ UNCHANGED <<props, sdkVars, storeVars, provVars, compVars, panelVars>>

\* --------------------------------------------------------------- useHelpPanel
\* the queries a descendant calls openSearch with; UNDEFINED is openSearch()
Queries == {UNDEFINED, "", "q1"}

\* faulty variant: openSearch hands every query, absent or not, to search
OpenSearchCalls_AlwaysSearch(p, query) == ControlCalls(p, "search", <<query>>)

\* if (query) search(query); else open({ view: 'search' })
OpenSearchCalls(p, query) ==
    IF Truthy(query) THEN ControlCalls(p, "search", <<query>>)
    ELSE ControlCalls(p, "open", <<[view |-> "search"]>>)

OpenSearch(p, query) ==
    /\ pc[p] # "none"
    /\ ~destroyed[p]
    /\ trace' = OpenSearchCalls(p, query)
    /\ writes' = <<>>
    /\ last' = Op("openSearch", p, <<query>>, NORETURN)
    /\ UNCHANGED <<props, sdkVars, storeVars, provVars, compVars, panelVars>>

\* navigate('chat'): the context's navigate(view, params) with params left out
OpenChatCalls(p) == ControlCalls(p, "navigate", <<"chat", UNDEFINED>>)

OpenChat(p) ==
    /\ pc[p] # "none"
    /\ ~destroyed[p]
    /\ trace' = OpenChatCalls(p)
    /\ writes' = <<>>
    /\ last' = Op("openChat", p, <<>>, NORETURN)
    /\ UNCHANGED <<props, sdkVars, storeVars, provVars, compVars, panelVars>>

\* ----------------------------------------- PillarPanel without a provider
\* the component script: if (!context) console.error(...)
OrphanScriptTrace ==
    IF ~HasContext(NoProvider)
    THEN <<ConsoleError("[Pillar Svelte] PillarPanel must be used within a PillarProvider")>>
    ELSE <<>>

OrphanPanelCreate ==
    /\ orphanPc = "none"
    /\ orphanPc' = "created"
    /\ trace' = OrphanScriptTrace
    /\ writes' = <<>>
    /\ last' = Op("PillarPanel", NoProvider, <<>>, NORETURN)
    /\ UNCHANGED <<props, sdkVars, storeVars, provVars, compVars, panelPc, hasMounted,
                   panelUnsub, mountPanelCalls, readySeen>>

\* get(context?.isReady ?? { subscribe: () => () => {} }) and get(context?.pillar ?? ...):
\* the stand-in store never calls its subscriber, so both values are undefined
OrphanIsReady == FALSE
OrphanPillar == UNDEFINED

\* line 340: the deferred branch is taken
OrphanDefers == ~OrphanIsReady \/ OrphanPillar = UNDEFINED

\* faulty variant: line 342 tests only !isReady and goes on to context.on(...)
OrphanSubscribes_NoContextTest == OrphanDefers /\ ~OrphanIsReady

\* line 342: if (context && !isReady)
OrphanSubscribes == OrphanDefers /\ HasContext(NoProvider) /\ ~OrphanIsReady

\* context.on(...) on an undefined context throws; line 356 would call
\* mountPanelTo on an undefined pillar
OrphanOnMountResult ==
    IF OrphanSubscribes \/ ~OrphanDefers
    THEN Throw("TypeError: cannot read properties of undefined")
    ELSE NORETURN

OrphanPanelOnMount ==
    /\ orphanPc = "created"
    /\ orphanPc' = "mounted"
    /\ trace' = <<>>
    /\ writes' = <<>>
    /\ last' = Op("PillarPanel.onMount", NoProvider, <<OrphanIsReady, OrphanPillar>>,
                  OrphanOnMountResult)
    /\ UNCHANGED <<props, sdkVars, storeVars, provVars, compVars, panelPc, hasMounted,
                   panelUnsub, mountPanelCalls, readySeen>>

\* onMount returned nothing: destroying the component runs no cleanup
OrphanPanelDestroy ==
    /\ orphanPc = "mounted"
    /\ orphanPc' = "destroyed"
    /\ trace' = <<>>
    /\ writes' = <<>>
    /\ last' = Op("PillarPanel.destroy", NoProvider, <<>>, NORETURN)
    /\ UNCHANGED <<props, sdkVars, storeVars, provVars, compVars, panelPc, hasMounted,
                   panelUnsub, mountPanelCalls, readySeen>>

\* the provider's lifecycle, common to every specification
Lifecycle ==
    \/ \E p \in Providers : ProviderCreate(p)
    \/ \E p \in Providers : OnMountReuse(p)
    \/ \E p \in Providers : OnMountInit(p)
    \/ \E p \in Providers, st \in {"uninitialized", "ready"} : InitResolve(p, st)
    \/ \E p \in Providers : InitReject(p)
    \/ \E p \in Providers : GetInstanceThrows(p)
    \/ \E p \in Providers : OnDestroy(p)

\* The provider and the instance's events.
Next ==
    \/ Lifecycle
    \/ \E ev \in EventNames, task \in Tasks \cup {NOPAYLOAD} : SdkEmit(ev, task)

\* an application that supplies productKey and no helpCenter
DefaultKeys == props.productKey = "pk" /\ props.helpCenter = UNDEFINED

InitEvents == Init /\ DefaultKeys

Spec == InitEvents /\ [][Next]_vars

\* The provider's lifecycle under every combination of productKey and helpCenter.
InitKeys == Init /\ props.cards = <<>> /\ ~props.onTask

NextKeys == Lifecycle

SpecKeys == InitKeys /\ [][NextKeys]_vars

\* The controls of the context and usePillar().onTask, called by a descendant at
\* any moment of the provider's life.
InitControls == Init /\ DefaultKeys /\ props.cards = <<>>

NextControls ==
    \/ Lifecycle
    \/ \E ev \in {"ready", "error"} : SdkEmit(ev, NOPAYLOAD)
    \/ \E p \in Providers, op \in ControlOps : \E args \in ControlArgs(op) :
          Control(p, op, args)
    \/ \E p \in Providers, ev \in UserEvents, h \in UserCallbacks : ControlOn(p, ev, h)
    \/ \E p \in Providers, name \in TaskNames, handler \in TaskHandlers :
          UsePillarOnTask(p, name, handler)

SpecControls == InitControls /\ [][NextControls]_vars

\* A PillarPanel inside the provider, mounted and destroyed at any moment of the
\* provider's life, and the events its mounting depends on.
InitPanel == Init /\ DefaultKeys /\ props.cards = <<>> /\ ~props.onTask

NextPanel ==
    \/ Lifecycle
    \/ \E ev \in {"ready", "error"} : SdkEmit(ev, NOPAYLOAD)
    \/ \E p \in Providers : PanelOnMount(p)
    \/ \E p \in Providers : PanelDestroy(p)

SpecPanel == InitPanel /\ [][NextPanel]_vars

\* The shortcuts of useHelpPanel(), called by a descendant at any moment of the
\* provider's life.
InitHelpPanel == Init /\ DefaultKeys /\ props.cards = <<>> /\ ~props.onTask

NextHelpPanel ==
    \/ Lifecycle
    \/ \E p \in Providers, q \in Queries : OpenSearch(p, q)
    \/ \E p \in Providers : OpenChat(p)

SpecHelpPanel == InitHelpPanel /\ [][NextHelpPanel]_vars

\* The accessors and a PillarPanel used with and without a provider above them,
\* while a provider elsewhere on the page lives its life.
InitOrphans == Init /\ DefaultKeys /\ props.cards = <<>> /\ ~props.onTask

NextOrphans ==
    \/ Lifecycle
    \/ \E ev \in {"ready", "error"} : SdkEmit(ev, NOPAYLOAD)
    \/ \E p \in Contexts : UsePillar(p)
    \/ \E p \in Contexts : UseHelpPanel(p)
    \/ OrphanPanelCreate
    \/ OrphanPanelOnMount
    \/ OrphanPanelDestroy

SpecOrphans == InitOrphans /\ [][NextOrphans]_vars

\* The card renderers: the lifecycle of a provider given a cards mapping, and an
\* instance that invokes the renderers and calls, or never calls, their cleanups.
InitCards == Init /\ DefaultKeys /\ props.cards # <<>> /\ ~props.onTask

NextCards ==
    \/ Lifecycle
    \/ \E r \in cardRenderers, c \in Containers, d \in Data, cb \in CardCallbackSets :
          SdkRenderCard(r, c, d, cb)
    \/ \E cl \in cardCleanups : SdkCardCleanup(cl)

SpecCards == InitCards /\ [][NextCards]_vars

\* ====================================================================== claims
Occurrences(t, x) == Cardinality({i \in 1..Len(t) : t[i] = x})
Active(p) == pc[p] = "done" /\ ~destroyed[p]

\* ----------------------------------------------------------------------- C1
\* C1: a provider mounted while the singleton exists (mount, initialization
\* completes, unmount, mount) does not call Pillar.init again, puts the singleton
\* in its pillar store and sets its state store to the singleton's current state.
C1_ReuseSyncsState ==
    \A p \in Providers :
        (last.op = "onMount" /\ last.p = p /\ singleton) =>
            /\ CallsOf(trace, "init") = <<>>
            /\ pillarStore[p] = PILLAR
            /\ stateStore[p] = sdkState

C1_Witness ==
    /\ last.op = "onMount" /\ last.p = 2
    /\ pc[1] = "done" /\ destroyed[1]
    /\ singleton /\ sdkState = "ready"
    /\ stateStore[2] = "ready"

\* ----------------------------------------------------------------------- C2
\* C2: a PillarPanel calls mountPanelTo on its container at most once, and only
\* when the pillar store holds the instance and either isReady was true when the
\* panel's onMount ran or a ready event is being delivered.
C2_PanelMountedAtMostOnce ==
    \A p \in Providers :
        /\ mountPanelCalls[p] <= 1
        /\ Occurrences(trace, Call("mountPanelTo", <<p, PANEL_DIV>>)) > 0 =>
              /\ pillarStore[p] = PILLAR
              /\ \/ (last.op = "PillarPanel.onMount" /\ last.p = p /\ last.args[1])
                 \/ (last.op = "emit" /\ last.args[1] = "ready")

\* a repeated ready event reaches the listener of a panel that is mounted already
C2_Witness ==
    \E p \in Providers :
        /\ mountPanelCalls[p] = 1
        /\ Listener("ready", p, "panelReady") \in listeners
        /\ last.op = "emit" /\ last.args[1] = "ready"
        /\ trace = <<>>

\* ----------------------------------------------------------------------- C3
\* C3: a PillarPanel whose onMount ran before readiness (the instance reference
\* possibly still null) is mounted exactly once when the instance then emits ready.
C3_DeferredPanelMounts ==
    \A p \in Providers :
        (panelPc[p] = "active" /\ readySeen[p] /\ pillarStore[p] # NULL) =>
            mountPanelCalls[p] = 1

\* ----------------------------------------------------------------------- C4
\* C4: while initialization is pending the pillar store is null and the state
\* store is 'uninitialized'; a control called while the pillar store is null
\* makes no call on the instance, registers nothing and changes no store, and
\* on() then returns the no-op function.
C4_Pending ==
    \A p \in Providers :
        pc[p] \in {"created", "awaitInit"} =>
            pillarStore[p] = NULL /\ stateStore[p] = "uninitialized"

C4_NullControl ==
    (last'.op \in ControlOps \cup {"on"} /\ pillarStore[last'.p] = NULL) =>
        /\ trace' = <<>>
        /\ UNCHANGED <<sdkVars, storeVars>>
        /\ last'.result = (IF last'.op = "on" THEN NOOP ELSE NORETURN)

C4_ControlsAreNoOps == []C4_Pending /\ [][C4_NullControl]_vars

C4_Witness ==
    \E p \in Providers :
        /\ pc[p] = "awaitInit"
        /\ last.op = "on" /\ last.p = p
        /\ last.result = NOOP

C6_Teardown ==
    \A p \in Providers :
        (destroyed'[p] /\ ~destroyed[p]) =>
            /\ \A f \in SetOfSeq(cleanupFunctions[p]) : Occurrences(trace', Cleanup(f)) = 1
            /\ \A i \in 1..Len(cardInstances[p]) :
                  Occurrences(trace', Unmount(cardInstances[p][i][2])) = 1
            /\ Len(trace') = Len(cleanupFunctions[p]) + Len(cardInstances[p])
            /\ \A i, j \in 1..Len(trace') :
                  (trace'[i].k = "cleanup" /\ trace'[j].k = "unmount") => i < j
            /\ cleanupFunctions'[p] = <<>>
            /\ cardInstances'[p] = <<>>
            /\ singleton' = singleton
            /\ UNCHANGED <<sdkState, sdkPanelOpen>>

C7_CardsRenderedAndTornDown ==
    /\ \A p \in Providers : Active(p) =>
          \A i \in 1..Len(props.cards) :
              [owner |-> p, cardType |-> props.cards[i]] \in cardRenderers
    /\ last.op = "renderCard" =>
          /\ Len(trace) = 1
          /\ trace[1].k = "mount"
          /\ trace[1].component = last.args[1]
          /\ trace[1].target = last.args[2]
          /\ trace[1].props.data = last.args[3]
          /\ trace[1].props.onConfirm = last.args[4].onConfirm
          /\ trace[1].props.onCancel = last.args[4].onCancel
          /\ trace[1].props.onStateChange = last.args[4].onStateChange
    /\ \A c \in DOMAIN comps :
          ( /\ destroyed[comps[c].owner]
            /\ ~comps[c].afterTeardown
            /\ [owner |-> comps[c].owner, container |-> comps[c].target, of |-> c]
                  \in cardCleanups )
          => unmounts[c] >= 1

\* ----------------------------------------------------------------------- C8
\* C8: every active provider, fresh or reusing, has listeners for panel:open,
\* panel:close, ready and error registered on the instance with their
\* de-registration functions collected, so that a ready or error event sets
\* its state store and a panel event its isPanelOpen store.
C8_FourListeners ==
    \A p \in Providers : Active(p) =>
        /\ \A ev \in {"panel:open", "panel:close", "ready", "error"} :
              \E l \in listeners :
                  /\ l.ev = ev /\ l.owner = p
                  /\ Off(l) \in SetOfSeq(cleanupFunctions[p])
        /\ (last.op = "emit" /\ last.args[1] \in {"ready", "error"}) =>
              stateStore[p] = last.args[1]
        /\ (last.op = "emit" /\ last.args[1] \in {"panel:open", "panel:close"}) =>
              isPanelOpenStore[p] = (last.args[1] = "panel:open")

\* ----------------------------------------------------------------------- C9
\* C9: with an onTask prop supplied, every task:execute event invokes it exactly
\* once with the event's payload for every active provider, fresh or reusing.
C9_OnTaskInvoked ==
    (last.op = "emit" /\ last.args[1] = "task:execute" /\ props.onTask) =>
        \A p \in Providers : Active(p) =>
            Occurrences(trace, OnTaskProp(p, last.args[2])) = 1

\* ---------------------------------------------------------------------- C10
\* C10: usePillar().onTask(name, handler) with the instance in the store calls
\* instance.onTask(name, handler) once and returns what it returned; without
\* the instance it returns a no-op and registers nothing, and no later step
\* registers the handler: only such a call with the instance present adds one.
C10_Step ==
    /\ last'.op = "usePillar.onTask" =>
          IF pillarStore[last'.p] # NULL
          THEN /\ trace' = <<Call("onTask", last'.args)>>
               /\ taskHandlers' = taskHandlers \cup
                     {[name |-> last'.args[1], handler |-> last'.args[2]]}
               /\ last'.result = [kind |-> "offTask", name |-> last'.args[1],
                                  handler |-> last'.args[2]]
          ELSE /\ trace' = <<>>
               /\ last'.result = NOOP
               /\ UNCHANGED <<taskHandlers, listeners>>
    /\ taskHandlers' # taskHandlers =>
          last'.op = "usePillar.onTask" /\ pillarStore[last'.p] # NULL

C10_TypedOnTask == [][C10_Step]_vars

C10_Witness ==
    /\ last.op = "usePillar.onTask"
    /\ pillarStore[last.p] = PILLAR
    /\ [name |-> last.args[1], handler |-> last.args[2]] \in taskHandlers
    /\ trace = <<Call("onTask", last.args)>>

\* ---------------------------------------------------------------------- C11
\* C11: for every combination of productKey and helpCenter, the identifier given
\* to Pillar.init is productKey whenever productKey is supplied and helpCenter
\* otherwise; the deprecation warning is logged exactly once per activation (by
\* the component script, by no other step) when only helpCenter is supplied, and
\* not at all when productKey is supplied.
Supplied(v) == v # UNDEFINED
IsWarning(e) == e.k = "console.warn"
C11_KeyAndWarning ==
    /\ last.op = "PillarProvider" =>
          Len(SelectSeq(trace, IsWarning)) =
              IF Supplied(props.helpCenter) /\ ~Supplied(props.productKey) THEN 1 ELSE 0
    /\ last.op # "PillarProvider" => SelectSeq(trace, IsWarning) = <<>>
    /\ (last.op = "onMount" /\ last.result = "awaiting") =>
          CallsOf(trace, "init") =
              << Call("init", <<[productKey |->
                      IF Supplied(props.productKey) THEN props.productKey
                      ELSE props.helpCenter]>>) >>

\* ---------------------------------------------------------------------- C12
\* C12: with no PillarProvider above them, usePillar() and useHelpPanel() each
\* throw their error synchronously; a PillarPanel does not throw: its script logs
\* one error, its onMount logs nothing, calls mountPanelTo on nothing and
\* registers no listener, and no later event mounts the panel.
IsError(e) == e.k = "console.error"
C12_NoProvider ==
    /\ (last.op = "usePillar" /\ last.p = NoProvider) =>
          /\ last.result = Throw("usePillar must be used within a PillarProvider")
          /\ trace = <<>>
    /\ (last.op = "useHelpPanel" /\ last.p = NoProvider) =>
          /\ last.result = Throw("useHelpPanel must be used within a PillarProvider")
          /\ trace = <<>>
    /\ (last.op = "PillarPanel" /\ last.p = NoProvider) =>
          /\ last.result.kind # "throw"
          /\ Len(SelectSeq(trace, IsError)) = 1
          /\ CallsOf(trace, "mountPanelTo") = <<>>
    /\ (last.op \in {"PillarPanel.onMount", "PillarPanel.destroy"} /\ last.p = NoProvider) =>
          /\ last.result.kind # "throw"
          /\ trace = <<>>
    /\ \A l \in listeners : l.owner # NoProvider
    /\ \A i \in 1..Len(trace) :
          (trace[i].k = "call" /\ trace[i].m = "mountPanelTo") =>
              trace[i].args[1] # NoProvider

C12_Witness ==
    /\ orphanPc = "mounted"
    /\ last.op = "emit"
    /\ last.args[1] = "ready"
    /\ \E p \in Providers : Active(p)

\* ---------------------------------------------------------------------- C13
\* C13 (as stated): for every string q, openSearch(q) delegates to search(q), so
\* that the instance is opened with that search query and not on the bare search
\* view; openSearch() opens the search view with no query; openChat() navigates
\* to 'chat'.  Without an instance none of them calls anything.
C13_Shortcuts ==
    /\ last.op = "openSearch" =>
          trace = IF pillarStore[last.p] = NULL THEN <<>>
                  ELSE IF last.args[1] # UNDEFINED
                       THEN <<Call("open", <<[search |-> last.args[1]]>>)>>
                       ELSE <<Call("open", <<[view |-> "search"]>>)>>
    /\ last.op = "openChat" =>
          trace = IF pillarStore[last.p] = NULL THEN <<>>
                  ELSE <<Call("navigate", <<"chat", UNDEFINED>>)>>

\* C13 (amended): for every non-empty string q, openSearch(q) opens the instance
\* with that search query and not on the bare search view; openSearch() and
\* openSearch('') open the search view with no query and issue no search;
\* openChat() navigates to 'chat'.  Without an instance none of them calls
\* anything.
C13_ShortcutsNonEmpty ==
    /\ last.op = "openSearch" =>
          trace = IF pillarStore[last.p] = NULL THEN <<>>
                  ELSE IF last.args[1] \notin {UNDEFINED, ""}
                       THEN <<Call("open", <<[search |-> last.args[1]]>>)>>
                       ELSE <<Call("open", <<[view |-> "search"]>>)>>
    /\ last.op = "openChat" =>
          trace = IF pillarStore[last.p] = NULL THEN <<>>
                  ELSE <<Call("navigate", <<"chat", UNDEFINED>>)>>

C13_Witness ==
    /\ last.op = "openSearch"
    /\ last.args = <<"">>
    /\ pillarStore[last.p] # NULL

\* ---------------------------------------------------------------------- C14
\* C14: while the pillar store holds the instance, each control of the context
\* makes exactly one call on the instance, with the caller's arguments unchanged:
\* open(o) -> open(o), close() -> close(), toggle() -> toggle(),
\* openArticle(slug) -> open({article: slug}),
\* openCategory(slug) -> navigate('category', {slug}),
\* search(q) -> open({search: q}), navigate(v, p) -> navigate(v, p),
\* setTheme(t) -> setTheme(t), setTextSelectionEnabled(b) ->
\* setTextSelectionEnabled(b), and on(e, cb) -> on(e, cb), whose own unsubscribe
\* function is what on returns.
C14_Forwarded ==
    (last.op \in ControlOps \cup {"on"} /\ pillarStore[last.p] # NULL) =>
        /\ Len(trace) = 1
        /\ trace[1].k = "call"
        /\ last.op = "open" => (trace[1].m = "open" /\ trace[1].args = last.args)
        /\ last.op = "close" => (trace[1].m = "close" /\ trace[1].args = <<>>)
        /\ last.op = "toggle" => (trace[1].m = "toggle" /\ trace[1].args = <<>>)
        /\ last.op = "openArticle" =>
              (trace[1].m = "open" /\ trace[1].args = <<[article |-> last.args[1]]>>)
        /\ last.op = "openCategory" =>
              (trace[1].m = "navigate"
               /\ trace[1].args = <<"category", [slug |-> last.args[1]]>>)
        /\ last.op = "search" =>
              (trace[1].m = "open" /\ trace[1].args = <<[search |-> last.args[1]]>>)
        /\ last.op = "navigate" => (trace[1].m = "navigate" /\ trace[1].args = last.args)
        /\ last.op = "setTheme" => (trace[1].m = "setTheme" /\ trace[1].args = last.args)
        /\ last.op = "setTextSelectionEnabled" =>
              (trace[1].m = "setTextSelectionEnabled" /\ trace[1].args = last.args)
        /\ last.op = "on" =>
              /\ trace[1].m = "on"
              /\ trace[1].args = last.args
              /\ last.result = Off(Listener(last.args[1], last.p, last.args[2]))
              /\ Listener(last.args[1], last.p, last.args[2]) \in listeners

C14_Witness ==
    /\ last.op = "openCategory"
    /\ pillarStore[last.p] # NULL
    /\ trace # <<>>

\* ---------------------------------------------------------------------- C15
\* C15: in every reachable state of a provider isReady is true exactly when the
\* state store holds 'ready'.  It becomes true by a ready event the provider
\* listens to, or by an activation that synchronizes the state store with an
\* instance whose state is 'ready', and by nothing else; it becomes false again
\* by an error event, which sets the state store to 'error', and by nothing else.
C15_Derived == \A p \in Providers : isReadyStore(p) <=> (stateStore[p] = "ready")

C15_Step ==
    \A p \in Providers :
        /\ (last'.op = "emit" /\ last'.args[1] = "ready"
                /\ Listener("ready", p, "onReady") \in listeners) => isReadyStore(p)'
        /\ (last'.op = "emit" /\ last'.args[1] = "error"
                /\ Listener("error", p, "onError") \in listeners) =>
              (~isReadyStore(p)' /\ stateStore'[p] = "error")
        /\ (last'.op \in {"onMount", "initResolved"} /\ last'.p = p
                /\ pillarStore'[p] # NULL) =>
              (isReadyStore(p)' <=> (sdkState' = "ready"))
        /\ (~isReadyStore(p) /\ isReadyStore(p)') =>
              \/ last'.op = "emit" /\ last'.args[1] = "ready"
              \/ last'.op \in {"onMount", "initResolved"} /\ last'.p = p
                    /\ sdkState' = "ready"
        /\ (isReadyStore(p) /\ ~isReadyStore(p)') =>
              (last'.op = "emit" /\ last'.args[1] = "error" /\ stateStore'[p] = "error")

ProviderEvents ==
    {"panel:open", "panel:close", "ready", "error"}
        \cup (IF props.onTask THEN {"task:execute"} ELSE {})
ProviderHandlers ==
    {"onPanelOpen", "onPanelClose", "onReady", "onError", "onTaskExecute"}
RegisteredBy(p) == {l \in listeners : l.owner = p /\ l.h \in ProviderHandlers}
RenderersOf(p) == {r \in cardRenderers : r.owner = p}
AttachedLate(p) == destroyed[p] /\ pc[p] = "done" /\ cleanupFunctions[p] # <<>>

C16_Step ==
    \A p \in Providers :
        (pc[p] = "awaitInit" /\ destroyed[p] /\ last'.op = "initResolved" /\ last'.p = p) =>
            /\ pillarStore'[p] = PILLAR
            /\ stateStore'[p] = sdkState'
            /\ AttachedLate(p)'
            /\ Len(cleanupFunctions'[p]) = Cardinality(ProviderEvents) + Len(props.cards)

C16_Leaked ==
    \A p \in Providers :
        AttachedLate(p) =>
            /\ pillarStore[p] = PILLAR
            /\ {l.ev : l \in RegisteredBy(p)} = ProviderEvents
            /\ {r.cardType : r \in RenderersOf(p)} = SetOfSeq(props.cards)

C16_InitNotCancelled == [][C16_Step]_vars /\ []C16_Leaked

C16_Witness ==
    /\ AttachedLate(1)
    /\ RenderersOf(1) # {}
    /\ destroyed[2]
    /\ pc[2] = "done"
    /\ RegisteredBy(1) # {}

\* ---------------------------------------------------------------------- C17
\* C17: when an activation that reuses the existing singleton has run, isPanelOpen
\* equals the singleton's actual panel state; in particular a provider remounted
\* while the panel is open has isPanelOpen true before any further panel event.
C17_PanelOpenSynced ==
    (last.op = "onMount" /\ last.result = "reused") =>
        (isPanelOpenStore[last.p] = sdkPanelOpen)

\* ---------------------------------------------------------------------- C18
\* C18: over any number of cycles mount, initialization completes, unmount: once
\* a provider is unmounted, no listener and no card renderer it registered is
\* left on the singleton; so the provider-registered listeners on the singleton
\* are those of the provider currently mounted, at most five, however many
\* times the provider was remounted.  (A provider unmounted while Pillar.init
\* was pending is not such a cycle.)
CleanCycles == \A p \in Providers : ~AttachedLate(p)
C18_NothingLeftBehind ==
    /\ \A p \in Providers :
          (destroyed[p] /\ ~AttachedLate(p)) =>
              (RegisteredBy(p) = {} /\ RenderersOf(p) = {})
    /\ CleanCycles =>
          /\ \A l \in listeners : l.h \in ProviderHandlers => ~destroyed[l.owner]
          /\ \A r \in cardRenderers : ~destroyed[r.owner]
          /\ Cardinality({l \in listeners : l.h \in ProviderHandlers}) <= 5
          /\ Cardinality(cardRenderers) <= Len(props.cards)

C18_Witness ==
    /\ CleanCycles
    /\ props.cards # <<>>
    /\ \A p \in Providers : destroyed[p] /\ pc[p] = "done"
    /\ last.op = "onDestroy"
    /\ last.p = MaxProviders
    /\ Len(last.args[1]) = 2 + Len(props.cards)
    /\ listeners = {}
    /\ cardRenderers = {}

\* ---------------------------------------------------------------------- C19
\* C19: every card component a renderer invocation mounted is unmounted exactly
\* once, by the cleanup that invocation returned or by the provider's teardown:
\* never twice, never by the cleanup of another invocation, and once at the
\* latest when its own cleanup was called or the provider it was mounted under
\* was torn down; also when two invocations get the same container before any
\* cleanup is called, and when a cleanup is called after the teardown.
OwnCleanupCalled(c) == \A cl \in cardCleanups : cl.of # c
TornDownWith(c) == destroyed[comps[c].owner] /\ ~comps[c].afterTeardown
C19_UnmountedOnce ==
    /\ \A c \in DOMAIN comps : unmounts[c] <= 1
    /\ \A c \in DOMAIN comps :
          (OwnCleanupCalled(c) \/ TornDownWith(c)) => unmounts[c] = 1
    /\ last.op = "cardCleanup" =>
          \A i \in 1..Len(trace) :
              trace[i].k = "unmount" => trace[i].c = last.args[2]

\* ---------------------------------------------------------------------- C20
\* C20: a PillarPanel that subscribed to the ready event and is destroyed before
\* the event fires: destroying it calls the unsubscribe its onMount returned,
\* which removes its ready listener, and from then on no step, no ready event
\* in particular, calls mountPanelTo for its container.
PanelListener(p) == Listener("ready", p, "panelReady")
C20_Unsubscribed ==
    \A p \in Providers : panelPc[p] = "destroyed" => PanelListener(p) \notin listeners

C20_Step ==
    \A p \in Providers :
        /\ (panelPc[p] = "active" /\ PanelListener(p) \in listeners
                /\ last'.op = "PillarPanel.destroy" /\ last'.p = p) =>
              /\ trace' = <<Cleanup(Off(PanelListener(p)))>>
              /\ PanelListener(p) \notin listeners'
        /\ panelPc[p] = "destroyed" =>
              /\ mountPanelCalls'[p] = mountPanelCalls[p]
              /\ \A i \in 1..Len(trace') :
                    (trace'[i].k = "call" /\ trace'[i].m = "mountPanelTo") =>
                        trace'[i].args[1] # p

C20_DestroyedPanelNeverMounts == []C20_Unsubscribed /\ [][C20_Step]_vars

C20_Witness ==
    \E p \in Providers :
        /\ panelPc[p] = "destroyed"
        /\ panelUnsub[p] = Off(PanelListener(p))
        /\ mountPanelCalls[p] = 0
        /\ pillarStore[p] # NULL
        /\ ~destroyed[p]
        /\ last.op = "emit"
        /\ last.args[1] = "ready"

\* ---------------------------------------------------------------------- C21
\* C21: in every state the provider's activation and its event listeners produce,
\* those between two store writes of one step included, isReady true implies that
\* the pillar store holds the instance: both activation paths write the pillar
\* store before the state store, and the ready listener sets the state store
\* only of a provider whose pillar store was written.
RECURSIVE ApplyWrites(_, _, _)
ApplyWrites(f, ws, store) ==
    IF ws = <<>> THEN f
    ELSE ApplyWrites(IF Head(ws).store = store
                     THEN [f EXCEPT ![Head(ws).p] = Head(ws).value] ELSE f,
                     Tail(ws), store)

C21_Inv == \A p \in Providers : isReadyStore(p) => pillarStore[p] # NULL

C21_Step ==
    /\ ApplyWrites(pillarStore, writes', "pillar") = pillarStore'
    /\ ApplyWrites(stateStore, writes', "state") = stateStore'
    /\ ApplyWrites(isPanelOpenStore, writes', "isPanelOpen") = isPanelOpenStore'
    /\ \A k \in 0..Len(writes') : \A p \in Providers :
          ApplyWrites(stateStore, SubSeq(writes', 1, k), "state")[p] = "ready" =>
              ApplyWrites(pillarStore, SubSeq(writes', 1, k), "pillar")[p] # NULL

C21_ReadyHasInstance == []C21_Inv /\ [][C21_Step]_vars

C21_Witness ==
    /\ last.op = "onMount"
    /\ last.result = "reused"
    /\ writes = StoreWrites(last.p, "ready")
    /\ isReadyStore(last.p)
    /\ pillarStore[last.p] = PILLAR

====
